---- MODULE Spec2Model ----
(***************************************************************************)
(* Model of src/app.py: identifier normalisation (slugify), the build of   *)
(* the Prolog fact base and the two label maps (load_prolog_from_xlsx),    *)
(* mention resolution (extract_symptoms), the abductive query              *)
(* (abductive_explanation), ranking (differential_diagnosis) and the       *)
(* report (show_differential), driven by the main loop.                    *)
(*                                                                         *)
(* A Python str is a sequence of one-character strings.  A Python dict is  *)
(* the sequence of its items <<key, value>> in insertion order.  The       *)
(* Prolog database is the sequence of has_symptom/2 clauses in assertion   *)
(* order.                                                                  *)
(***************************************************************************)
EXTENDS Integers, Sequences, FiniteSets, TLC

VARIABLES
    pc,                  \* position of the script
    prolog,              \* has_symptom(d, s) clauses, in assertz order
    disease_label_map,   \* dict d_slug -> d_raw
    symptom_label_map,   \* dict s_slug -> s_raw
    log,                 \* facts reported by logging.error during the load
    loaded,              \* rows of df iterated so far, with the outcome of each assertz
    ents,                \* doc.ents of the current query
    symptoms,            \* result of extract_symptoms
    explanation,         \* dict returned by abductive_explanation
    ranked,              \* result of differential_diagnosis
    out,                 \* what show_differential printed
    raw,                 \* slugify harness: the raw text
    slug,                \* slugify harness: slugify(raw)
    reslug               \* slugify harness: slugify(slugify(raw))

vars == <<pc, prolog, disease_label_map, symptom_label_map, log, loaded, ents,
          symptoms, explanation, ranked, out, raw, slug, reslug>>

kb == <<prolog, disease_label_map, symptom_label_map>>
query == <<ents, symptoms, explanation, ranked, out>>
harness == <<raw, slug, reslug>>

-----------------------------------------------------------------------------
(* Bounds *)

MaxChunks == 3      \* pieces a raw text of the slugify harness is made of
MaxRows == 2        \* rows of the sheet
MaxEnts == 3        \* entities of one query

-----------------------------------------------------------------------------
(* Characters and str methods *)

Upper == <<"A","B","C","D","E","F","G","H","I","J","K","L","M",
           "N","O","P","Q","R","S","T","U","V","W","X","Y","Z">>
Lower == <<"a","b","c","d","e","f","g","h","i","j","k","l","m",
           "n","o","p","q","r","s","t","u","v","w","x","y","z">>
Digits == {"0","1","2","3","4","5","6","7","8","9"}

Range(s) == {s[i] : i \in DOMAIN s}

UpperSet == Range(Upper)
LowerSet == Range(Lower)

\* a character outside ASCII, written by name
EAcute == "e-acute"
NonAscii == {EAcute}

LowerOf == [c \in UpperSet |-> Lower[CHOOSE i \in DOMAIN Upper : Upper[i] = c]]

lower_char(c) == IF c \in UpperSet THEN LowerOf[c] ELSE c

\* str.lower()
lower(s) == [i \in DOMAIN s |-> lower_char(s[i])]

Drop(s, n) == SubSeq(s, n + 1, Len(s))

RECURSIVE lstrip(_)
lstrip(s) == IF s # <<>> /\ Head(s) = " " THEN lstrip(Tail(s)) ELSE s

RECURSIVE rstrip(_)
rstrip(s) ==
    IF s # <<>> /\ s[Len(s)] = " " THEN rstrip(SubSeq(s, 1, Len(s) - 1)) ELSE s

\* str.strip()
strip(s) == rstrip(lstrip(s))

\* str.startswith(p)
startswith(s, p) == Len(s) >= Len(p) /\ SubSeq(s, 1, Len(p)) = p

\* str.replace(a, b) for a single character a
replace(s, a, b) == [i \in DOMAIN s |-> IF s[i] = a THEN b ELSE s[i]]

\* needle in hay
contains(hay, needle) ==
    \E k \in 0..(Len(hay) - Len(needle)) : SubSeq(hay, k + 1, k + Len(needle)) = needle

RECURSIVE split(_, _)
\* str.split(sep) for a single character sep
split(s, sep) ==
    IF \A i \in DOMAIN s : s[i] # sep
    THEN <<s>>
    ELSE LET k == CHOOSE i \in DOMAIN s : s[i] = sep /\ \A j \in 1..(i - 1) : s[j] # sep
         IN  <<SubSeq(s, 1, k - 1)>> \o split(Drop(s, k), sep)

UmlsColon == <<"u","m","l","s",":">>
UmlsUnderscore == <<"u","m","l","s","_">>

IsSlugChar(c) == c \in LowerSet \/ c \in Digits \/ c = "_"

\* re.sub(r'^UMLS:', '', text, flags=re.IGNORECASE)
strip_umls_prefix(text) ==
    IF startswith(lower(text), UmlsColon) THEN Drop(text, 5) ELSE text

\* slugify with the test of line 21 left out
slugify_always_prefix(text) ==
    LET t1 == strip(text)
        t2 == strip_umls_prefix(t1)
        t3 == lower(replace(replace(t2, ":", "_"), " ", "_"))
        t4 == SelectSeq(t3, IsSlugChar)
    IN  UmlsUnderscore \o t4

slugify(text) ==
    LET t1 == strip(text)
        t2 == strip_umls_prefix(t1)
        t3 == lower(replace(replace(t2, ":", "_"), " ", "_"))
        t4 == SelectSeq(t3, IsSlugChar)
    IN  IF ~startswith(t4, UmlsUnderscore) THEN UmlsUnderscore \o t4 ELSE t4

IsAscii(c) == c \notin NonAscii

\* str(x).encode('ascii', errors='ignore').decode()
as_pystr(x) == SelectSeq(x, IsAscii)

-----------------------------------------------------------------------------
(* dict: the sequence of its items <<key, value>>, in insertion order *)

keys(d) == {d[i][1] : i \in DOMAIN d}

index_of(d, k) == CHOOSE i \in DOMAIN d : d[i][1] = k

\* d[k]
dict_get(d, k) == d[index_of(d, k)][2]

\* d.setdefault(k, v): a key already present keeps its value
dict_setdefault(d, k, v) ==
    IF k \in keys(d) THEN d ELSE Append(d, <<k, v>>)

\* d[k] = v: a new key goes last, a key already present keeps its place
dict_set(d, k, v) ==
    IF k \in keys(d) THEN [d EXCEPT ![index_of(d, k)] = <<k, v>>]
    ELSE Append(d, <<k, v>>)

-----------------------------------------------------------------------------
(* The sheet: the rows the load may read *)

Flu == <<"F","l","u">>
FluAccent == <<" ","F","L","U",EAcute>>
Cold == <<"C","o","l","d">>
FeverCough == <<"U","M","L","S",":","C","1","_","f","e","v","e","r",","," ",
                "U","M","L","S",":","C","2","_","d","r","y"," ","c","o","u","g","h">>
CoughColon == <<"c","2","_","d","r","y",":","c","o","u","g","h">>
FeverLower == <<"u","m","l","s",":","c","1","_","F","e","v","e","r">>

Rows == {[Disease |-> Flu, Symptom |-> FeverCough],
         [Disease |-> Cold, Symptom |-> CoughColon],
         [Disease |-> FluAccent, Symptom |-> FeverLower]}

\* the pieces of row.Symptom (line 77)
pieces(row) == split(as_pystr(row.Symptom), ",")

\* the outcomes of the assertz calls of one row: TRUE where assertz raises
Outcomes(row) == [DOMAIN pieces(row) -> BOOLEAN]

-----------------------------------------------------------------------------
(* load_prolog_from_xlsx *)

\* lines 76 and 80 with setdefault in place of the assignment
register_first(labels, k, v) == dict_setdefault(labels, k, v)

\* lines 76 and 80: label_map[slug] = raw
register(labels, k, v) == dict_set(labels, k, v)

RECURSIVE load_symptoms_abort(_, _, _, _, _)
\* the loop of lines 77-84 with the try around the whole loop
load_symptoms_abort(st, d_slug, ps, fails, i) ==
    IF i > Len(ps) THEN st
    ELSE LET s_raw == strip(as_pystr(ps[i]))
             s_slug == slugify(s_raw)
             labels == register(st.symptom_label_map, s_slug, s_raw)
         IN  IF fails[i]
             THEN [st EXCEPT !.symptom_label_map = labels,
                             !.log = Append(st.log, <<d_slug, s_slug>>)]
             ELSE load_symptoms_abort(
                      [st EXCEPT !.symptom_label_map = labels,
                                 !.prolog = Append(st.prolog,
                                                   <<as_pystr(d_slug), as_pystr(s_slug)>>)],
                      d_slug, ps, fails, i + 1)

RECURSIVE load_symptoms(_, _, _, _, _)
\* the loop of lines 77-84, from piece i on
load_symptoms(st, d_slug, ps, fails, i) ==
    IF i > Len(ps) THEN st
    ELSE LET s_raw == strip(as_pystr(ps[i]))
             s_slug == slugify(s_raw)
             labels == register(st.symptom_label_map, s_slug, s_raw)
         IN  load_symptoms(
                 IF fails[i]
                 THEN [st EXCEPT !.symptom_label_map = labels,
                                 !.log = Append(st.log, <<d_slug, s_slug>>)]
                 ELSE [st EXCEPT !.symptom_label_map = labels,
                                 !.prolog = Append(st.prolog,
                                                   <<as_pystr(d_slug), as_pystr(s_slug)>>)],
                 d_slug, ps, fails, i + 1)

\* the body of the loop over the rows (lines 74-84)
load_row(st, row, fails) ==
    LET d_raw == strip(as_pystr(row.Disease))
        d_slug == slugify(d_raw)
    IN  load_symptoms(
            [st EXCEPT !.disease_label_map = register(st.disease_label_map, d_slug, d_raw)],
            d_slug, pieces(row), fails, 1)

-----------------------------------------------------------------------------
(* The entities the pipeline may return for a query: <<label_, text>> *)

MFever == <<" ","F","e","v","e","r">>
MDryCough == <<"d","r","y"," ","c","o","u","g","h">>
MColonC == <<":","c">>
MFlu == <<"f","l","u">>

Ents == {<<"SYMPTOM", MFever>>, <<"SYMPTOM", MDryCough>>, <<"SYMPTOM", MColonC>>,
         <<"DISEASE", MFlu>>}

SeqsUpTo(S, n) == UNION {[1..k -> S] : k \in 0..n}

-----------------------------------------------------------------------------
(* extract_symptoms *)

\* the test of line 97
label_matches(item, ent_label) ==
    \/ contains(lower(as_pystr(item[2])), ent_label)
    \/ contains(item[1], replace(ent_label, " ", "_"))

\* lines 93-102 with the last matching entry taken
resolve_last(text, label_map) ==
    LET ent_label == lower(strip(text))
        ent_slug == slugify(ent_label)
        hits == {i \in DOMAIN label_map : label_matches(label_map[i], ent_label)}
    IN  IF hits # {}
        THEN as_pystr(label_map[CHOOSE i \in hits : \A j \in hits : j <= i][1])
        ELSE as_pystr(ent_slug)

\* lines 93-102: the slug appended for one SYMPTOM entity
resolve(text, label_map) ==
    LET ent_label == lower(strip(text))
        ent_slug == slugify(ent_label)
        hits == {i \in DOMAIN label_map : label_matches(label_map[i], ent_label)}
    IN  IF hits # {}
        THEN as_pystr(label_map[CHOOSE i \in hits : \A j \in hits : i <= j][1])
        ELSE as_pystr(ent_slug)

RECURSIVE extract_symptoms(_, _)
extract_symptoms(doc_ents, label_map) ==
    IF doc_ents = <<>> THEN <<>>
    ELSE LET ent == Head(doc_ents)
             rest == extract_symptoms(Tail(doc_ents), label_map)
         IN  IF ent[1] = "SYMPTOM"
             THEN <<resolve(ent[2], label_map)>> \o rest
             ELSE rest

-----------------------------------------------------------------------------
(* abductive_explanation *)

\* prolog.query("has_symptom(Disease, %p)", symptom): the bindings of Disease,
\* one per matching clause, in clause order.  With no clause asserted the
\* predicate does not exist and the query raises; line 112 catches that and
\* the symptom adds nothing, as with no binding.
RECURSIVE prolog_query(_, _)
prolog_query(db, symptom) ==
    IF db = <<>> THEN <<>>
    ELSE IF Head(db)[2] = as_pystr(symptom)
         THEN <<Head(db)[1]>> \o prolog_query(Tail(db), symptom)
         ELSE prolog_query(Tail(db), symptom)

\* line 111 with the set replaced instead of extended
add_match_overwrite(expl, disease, symptom) ==
    dict_set(expl, disease, {symptom})

\* line 111: explanation.setdefault(disease, set()).add(symptom)
add_match(expl, disease, symptom) ==
    LET e == dict_setdefault(expl, disease, {})
    IN  dict_set(e, disease, dict_get(e, disease) \cup {symptom})

RECURSIVE add_results(_, _, _)
\* the loop of lines 109-111
add_results(expl, results, symptom) ==
    IF results = <<>> THEN expl
    ELSE add_results(add_match(expl, Head(results), symptom), Tail(results), symptom)

RECURSIVE abduce_from(_, _, _)
abduce_from(expl, db, syms) ==
    IF syms = <<>> THEN expl
    ELSE abduce_from(add_results(expl, prolog_query(db, Head(syms)), Head(syms)),
                     db, Tail(syms))

abductive_explanation(db, syms) == abduce_from(<<>>, db, syms)

-----------------------------------------------------------------------------
(* differential_diagnosis *)

\* key=lambda x: len(x[1])
sort_key(item) == Cardinality(item[2])

\* insert_stable with an item put before the items of equal key
insert_unstable(sorted, item) ==
    LET before == {i \in DOMAIN sorted : sort_key(sorted[i]) > sort_key(item)}
        n == Cardinality(before)
    IN  SubSeq(sorted, 1, n) \o <<item>> \o Drop(sorted, n)

\* item goes after every item whose key is at least its own
insert_stable(sorted, item) ==
    LET before == {i \in DOMAIN sorted : sort_key(sorted[i]) >= sort_key(item)}
        n == Cardinality(before)
    IN  SubSeq(sorted, 1, n) \o <<item>> \o Drop(sorted, n)

RECURSIVE sort_from(_, _)
sort_from(sorted, items) ==
    IF items = <<>> THEN sorted
    ELSE sort_from(insert_stable(sorted, Head(items)), Tail(items))

\* sorted(explanation.items(), key=..., reverse=True): stable, largest key first
sorted_reverse(items) == sort_from(<<>>, items)

-----------------------------------------------------------------------------
(* show_differential *)

\* nothing printed yet
NoOutput == [none |-> FALSE, observed |-> <<>>, table |-> <<>>, top |-> <<>>,
             no_single |-> FALSE, unexplained |-> <<>>]

\* line 149
explained(rk) == UNION {rk[i][2] : i \in DOMAIN rk}

\* line 150 with the test inverted
unexplained_inverted(rk, syms) ==
    LET is_explained(s) == s \in explained(rk)
    IN  SelectSeq(syms, is_explained)

RECURSIVE dedup(_)
\* the first occurrence of every value, in order
dedup(s) ==
    IF s = <<>> THEN <<>>
    ELSE LET front == dedup(SubSeq(s, 1, Len(s) - 1))
             last == s[Len(s)]
         IN  IF last \in Range(front) THEN front ELSE Append(front, last)

\* line 150 over the distinct symptoms
unexplained_distinct(rk, syms) ==
    LET not_explained(s) == s \notin explained(rk)
    IN  SelectSeq(dedup(syms), not_explained)

\* line 150: [s for s in symptoms if s not in explained]
unexplained(rk, syms) ==
    LET not_explained(s) == s \notin explained(rk)
    IN  SelectSeq(syms, not_explained)

\* line 137: the entries whose set is as long as the list of symptoms
top_entries(rk, syms) ==
    LET is_top(e) == Cardinality(e[3]) = Len(syms)
    IN  SelectSeq([i \in DOMAIN rk |-> <<i, rk[i][1], rk[i][2]>>], is_top)

show_differential(rk, syms) ==
    IF rk = <<>>
    THEN [NoOutput EXCEPT !.none = TRUE]
    ELSE LET top == top_entries(rk, syms)
         IN  [none |-> FALSE,
              observed |-> syms,
              table |-> [i \in DOMAIN rk |->
                            <<i, rk[i][1], Cardinality(rk[i][2]), Len(syms)>>],
              top |-> top,
              no_single |-> (top = <<>>),
              unexplained |-> unexplained(rk, syms)]

-----------------------------------------------------------------------------
(* The script: the load at line 86, then the loop of lines 157-170 *)

NoQuery ==
    /\ ents = <<>>
    /\ symptoms = <<>>
    /\ explanation = <<>>
    /\ ranked = <<>>
    /\ out = NoOutput

NoHarness ==
    /\ raw = <<>>
    /\ slug = <<>>
    /\ reslug = <<>>

Init ==
    /\ pc = "load"
    /\ prolog = <<>>
    /\ disease_label_map = <<>>
    /\ symptom_label_map = <<>>
    /\ log = <<>>
    /\ loaded = <<>>
    /\ NoQuery
    /\ NoHarness

\* one iteration of the loop of line 73
LoadRow ==
    /\ pc = "load"
    /\ Len(loaded) < MaxRows
    /\ \E row \in Rows : \E fails \in Outcomes(row) :
         LET st == load_row([prolog |-> prolog,
                             disease_label_map |-> disease_label_map,
                             symptom_label_map |-> symptom_label_map,
                             log |-> log], row, fails)
         IN  /\ prolog' = st.prolog
             /\ disease_label_map' = st.disease_label_map
             /\ symptom_label_map' = st.symptom_label_map
             /\ log' = st.log
             /\ loaded' = Append(loaded, [row |-> row, fails |-> fails])
    /\ UNCHANGED <<pc, query, harness>>

\* the sheet has no further row: load_prolog_from_xlsx returns, the loop starts
LoadDone ==
    /\ pc = "load"
    /\ pc' = "ready"
    /\ UNCHANGED <<kb, log, loaded, query, harness>>

\* ExtractSymptoms with every slug found registered in symptom_label_map
ExtractSymptomsRegistering ==
    /\ pc = "ready"
    /\ \E doc_ents \in SeqsUpTo(Ents, MaxEnts) :
         LET found == extract_symptoms(doc_ents, symptom_label_map)
         IN  IF found = <<>>
             THEN /\ pc' = "ready"
                  /\ UNCHANGED <<ents, symptoms, symptom_label_map>>
             ELSE /\ pc' = "extracted"
                  /\ ents' = doc_ents
                  /\ symptoms' = found
                  /\ symptom_label_map' =
                         dict_setdefault(symptom_label_map, found[1], found[1])
    /\ UNCHANGED <<prolog, disease_label_map, log, loaded, explanation, ranked, out,
                   harness>>

\* lines 159-166: a line of input that is not "exit".  With no symptom found
\* the loop prints "No symptoms recognized" and continues (line 166).
ExtractSymptoms ==
    /\ pc = "ready"
    /\ \E doc_ents \in SeqsUpTo(Ents, MaxEnts) :
         LET found == extract_symptoms(doc_ents, symptom_label_map)
         IN  IF found = <<>>
             THEN /\ pc' = "ready"
                  /\ UNCHANGED <<ents, symptoms>>
             ELSE /\ pc' = "extracted"
                  /\ ents' = doc_ents
                  /\ symptoms' = found
    /\ UNCHANGED <<kb, log, loaded, explanation, ranked, out, harness>>

\* line 167; doc, a local of extract_symptoms, is gone by now
DifferentialDiagnosis ==
    /\ pc = "extracted"
    /\ pc' = "ranked"
    /\ ents' = <<>>
    /\ explanation' = abductive_explanation(prolog, symptoms)
    /\ ranked' = sorted_reverse(explanation')
    /\ UNCHANGED <<kb, log, loaded, symptoms, out, harness>>

\* line 168
ShowDifferential ==
    /\ pc = "ranked"
    /\ pc' = "shown"
    /\ out' = show_differential(ranked, symptoms)
    /\ UNCHANGED <<kb, log, loaded, ents, symptoms, explanation, ranked, harness>>

\* back to line 159: the results of the last query are dropped
NextInput ==
    /\ pc = "shown"
    /\ pc' = "ready"
    /\ ents' = <<>>
    /\ symptoms' = <<>>
    /\ explanation' = <<>>
    /\ ranked' = <<>>
    /\ out' = NoOutput
    /\ UNCHANGED <<kb, log, loaded, harness>>

\* lines 160-162
Exit ==
    /\ pc = "ready"
    /\ pc' = "exit"
    /\ UNCHANGED <<kb, log, loaded, query, harness>>

Next ==
    \/ LoadRow
    \/ LoadDone
    \/ ExtractSymptoms
    \/ DifferentialDiagnosis
    \/ ShowDifferential
    \/ NextInput
    \/ Exit

Spec == Init /\ [][Next]_vars

-----------------------------------------------------------------------------
(* slugify applied to raw texts, then to its own result *)

Chunks == {<<"U","M","L","S",":">>, <<"U","m">>, <<"l","s",":">>,
           <<"u","m","l","s","_">>, <<" ">>, <<":">>, <<"x">>, <<"Y">>,
           <<"7">>, <<"-">>, <<"_">>, <<EAcute>>}

RECURSIVE concat(_)
concat(ss) == IF ss = <<>> THEN <<>> ELSE Head(ss) \o concat(Tail(ss))

RawTexts == {concat(ss) : ss \in SeqsUpTo(Chunks, MaxChunks)}

InitSlug ==
    /\ pc = "raw"
    /\ prolog = <<>>
    /\ disease_label_map = <<>>
    /\ symptom_label_map = <<>>
    /\ log = <<>>
    /\ loaded = <<>>
    /\ NoQuery
    /\ raw \in RawTexts
    /\ slug = <<>>
    /\ reslug = <<>>

Slugify ==
    /\ pc = "raw"
    /\ pc' = "slug"
    /\ slug' = slugify(raw)
    /\ UNCHANGED <<kb, log, loaded, query, raw, reslug>>

Reslugify ==
    /\ pc = "slug"
    /\ pc' = "reslug"
    /\ reslug' = slugify(slug)
    /\ UNCHANGED <<kb, log, loaded, query, raw, slug>>

NextSlug ==
    \/ Slugify
    \/ Reslugify

SpecSlug == InitSlug /\ [][NextSlug]_vars

-----------------------------------------------------------------------------
(* Properties *)

Distinct(s) == Cardinality(Range(s))

Reported == pc = "shown"

Diagnosed == pc \in {"ranked", "shown"}

\* the ranks listed in the 'Most plausible' block
TopRanks == {out.top[j][1] : j \in DOMAIN out.top}

\* C1: a ranked disease is listed in the 'Most plausible' block iff the size of
\* its matched set equals the number of distinct observed symptom slugs.
C1_FullyExplanatoryIffDistinct ==
    Reported =>
        \A i \in DOMAIN ranked :
            i \in TopRanks <=> Cardinality(ranked[i][2]) = Distinct(symptoms)

C3_ExplanationMap ==
    Diagnosed =>
        /\ \A i, j \in DOMAIN explanation :
               explanation[i][1] = explanation[j][1] => i = j
        /\ keys(explanation) =
               {f[1] : f \in {g \in Range(prolog) : g[2] \in Range(symptoms)}}
        /\ \A i \in DOMAIN explanation :
               explanation[i][2] =
                   {s \in Range(symptoms) : <<explanation[i][1], s>> \in Range(prolog)}
        /\ explanation = abductive_explanation(prolog, dedup(symptoms))

C3_Witness ==
    /\ pc = "ranked"
    /\ Len(explanation) >= 2
    /\ \E i \in DOMAIN explanation : Cardinality(explanation[i][2]) >= 2
    /\ Distinct(symptoms) < Len(symptoms)

PositionIn(d, item) == CHOOSE i \in DOMAIN d : d[i] = item

\* C4: ranked is a permutation of the items of the explanation map, matched
\* counts never increase along it, and entries of equal count keep the order
\* in which the map first met their diseases.
C4_RankedStableDescending ==
    Diagnosed =>
        /\ Len(ranked) = Len(explanation)
        /\ Range(ranked) = Range(explanation)
        /\ \A i \in DOMAIN ranked : \A j \in DOMAIN ranked :
               i < j =>
                   /\ Cardinality(ranked[i][2]) >= Cardinality(ranked[j][2])
                   /\ Cardinality(ranked[i][2]) = Cardinality(ranked[j][2]) =>
                          PositionIn(explanation, ranked[i])
                              < PositionIn(explanation, ranked[j])

C4_Witness ==
    /\ pc = "ranked"
    /\ Len(ranked) >= 2
    /\ ranked # explanation

\* C5 as stated: once a label is registered for a slug, no later step changes it.
C5_FirstSeenLabelKept ==
    [][/\ \A i \in DOMAIN disease_label_map :
              /\ i \in DOMAIN disease_label_map'
              /\ disease_label_map'[i] = disease_label_map[i]
       /\ \A i \in DOMAIN symptom_label_map :
              /\ i \in DOMAIN symptom_label_map'
              /\ symptom_label_map'[i] = symptom_label_map[i]]_vars

\* the raw disease labels read so far, in order
DiseaseRawsRead == [i \in DOMAIN loaded |-> strip(as_pystr(loaded[i].row.Disease))]

RowSymptomRaws(row) == [i \in DOMAIN pieces(row) |-> strip(as_pystr(pieces(row)[i]))]

\* the raw symptom labels read so far, in order
SymptomRawsRead == concat([i \in DOMAIN loaded |-> RowSymptomRaws(loaded[i].row)])

\* the label map the raws give when the last raw of every slug is kept, each
\* slug at the place of its first raw
LastSeen(raws) ==
    LET slugs == dedup([i \in DOMAIN raws |-> slugify(raws[i])])
        last(k) == CHOOSE i \in DOMAIN raws :
                       /\ slugify(raws[i]) = k
                       /\ \A j \in DOMAIN raws : slugify(raws[j]) = k => j <= i
    IN  [n \in DOMAIN slugs |-> <<slugs[n], raws[last(slugs[n])]>>]

Building == pc \in {"load", "ready"}

\* C5 amended: the label registered for a slug is the raw label of the latest
\* record read that normalizes to it (a later different raw label replaces
\* the registered one); the slug keeps its first-seen place in the table.
C5_LastSeenLabelWins ==
    Building =>
        /\ disease_label_map = LastSeen(DiseaseRawsRead)
        /\ symptom_label_map = LastSeen(SymptomRawsRead)

C5_Witness ==
    /\ pc = "load"
    /\ \E i, j \in DOMAIN loaded :
           /\ i < j
           /\ DiseaseRawsRead[i] # DiseaseRawsRead[j]
           /\ slugify(DiseaseRawsRead[i]) = slugify(DiseaseRawsRead[j])
           /\ dict_get(disease_label_map, slugify(DiseaseRawsRead[i])) # DiseaseRawsRead[i]

\* the assertz calls of one row: the fact and whether assertz raised
RowAttempts(r) ==
    [i \in DOMAIN pieces(r.row) |->
        [fact |-> <<slugify(strip(as_pystr(r.row.Disease))),
                    slugify(RowSymptomRaws(r.row)[i])>>,
         failed |-> r.fails[i]]]

Attempts == concat([i \in DOMAIN loaded |-> RowAttempts(loaded[i])])

FactsOf(as) == [i \in DOMAIN as |-> as[i].fact]

\* C6: a failing assertz skips and logs that one fact only: every fact of
\* every row read whose assertz succeeded is in the fact base, in order, and
\* the logged facts are exactly the failed ones.
C6_FailedFactSkippedOnly ==
    Building =>
        /\ prolog = FactsOf(SelectSeq(Attempts, LAMBDA a : ~a.failed))
        /\ log = FactsOf(SelectSeq(Attempts, LAMBDA a : a.failed))

C6_Witness ==
    /\ pc = "ready"
    /\ Len(loaded) >= 2
    /\ Len(loaded[1].fails) = 2
    /\ loaded[1].fails[1]
    /\ ~loaded[1].fails[2]
    /\ Len(prolog) >= 2

\* C7: slugify applied to its own result returns that result.
C7_SlugifyIdempotent ==
    pc = "reslug" => reslug = slug

C7_Witness ==
    /\ pc = "reslug"
    /\ startswith(lower(strip(raw)), UmlsColon \o UmlsColon)
    /\ Len(slug) > Len(UmlsUnderscore)

Querying == pc \in {"ready", "extracted", "ranked", "shown"}

\* C8: once the build has ended, no step of a query changes the fact base or
\* either label map.
C8_QueriesReadOnly ==
    [][Querying => UNCHANGED kb]_vars

C8_Witness ==
    /\ Reported
    /\ prolog # <<>>
    /\ ranked # <<>>

\* the place in symptoms of the first occurrence of s
FirstAt(s) == CHOOSE i \in DOMAIN symptoms :
                  symptoms[i] = s /\ \A j \in DOMAIN symptoms : symptoms[j] = s => i <= j

UnexplainedAt == {i \in DOMAIN symptoms : symptoms[i] \notin explained(ranked)}

Mentions ==
    LET sym == SelectSeq(ents, LAMBDA e : e[1] = "SYMPTOM")
    IN  [i \in DOMAIN sym |-> sym[i][2]]

\* the entries of the symptom label table a mention matches
MatchesOf(mention) ==
    LET text == lower(strip(mention))
    IN  {i \in DOMAIN symptom_label_map :
            \/ contains(lower(symptom_label_map[i][2]), text)
            \/ contains(symptom_label_map[i][1], replace(text, " ", "_"))}

\* C10: every mention gives exactly one slug, in mention order: the slug of
\* the first entry of the symptom label table, in insertion order, whose
\* lowercased label contains the lowercased trimmed mention or whose slug
\* contains it with spaces as underscores, else slugify(mention).
C10_ResolveFirstMatchOrFallback ==
    pc = "extracted" =>
        /\ Len(symptoms) = Len(Mentions)
        /\ \A i \in DOMAIN Mentions :
               LET hits == MatchesOf(Mentions[i])
               IN  IF hits # {}
                   THEN \E h \in hits :
                            /\ \A g \in hits : h <= g
                            /\ symptoms[i] = symptom_label_map[h][1]
                   ELSE symptoms[i] = slugify(Mentions[i])

C10_Witness ==
    /\ pc = "extracted"
    /\ Len(Mentions) < Len(ents)
    /\ \E i \in DOMAIN Mentions : Cardinality(MatchesOf(Mentions[i])) >= 2
    /\ \E i \in DOMAIN Mentions :
           /\ MatchesOf(Mentions[i]) # {}
           /\ \A h \in MatchesOf(Mentions[i]) :
                  ~contains(lower(symptom_label_map[h][2]), lower(strip(Mentions[i])))

====
